---- MODULE Spec2Model ----
(***************************************************************************)
(* Citation-graph builder of Scholar-Tool.                                 *)
(*                                                                         *)
(*   src/scholar/utils.py   request_with_retry, search_paper,              *)
(*                          sort_papers, fetch_relations                   *)
(*   src/scholar/graph.py   PaperGraph: add_node, _get_relations,          *)
(*                          _add_edge, build                               *)
(*                                                                         *)
(* The specifications of the module:                                       *)
(*   SpecRetry  one call of request_with_retry, one HTTP request per step  *)
(*   SpecCache  a sequence of _get_relations calls on one PaperGraph       *)
(*   Spec       one PaperGraph.build call, one loop iteration per step     *)
(*   FairSpec   Spec, with build running on until it returns               *)
(*   SpecFetch  one call of fetch_relations, one page request per step     *)
(* In SpecCache and Spec a call of request_with_retry is one network call  *)
(* that yields a payload or None (what SpecRetry shows it to yield).       *)
(***************************************************************************)
EXTENDS Integers, Sequences, FiniteSets, TLC

VARIABLES
    \* ---- request_with_retry (utils.py:9-26)
    rq_pc,        \* "idle" | "loop" | "done"
    rq_max,       \* max_retries
    rq_i,         \* loop index i of range(max_retries)
    rq_result,    \* "pending" | "payload" | "None"
    rq_sent,      \* history: number of requests.get calls
    rq_waits,     \* history: the time.sleep arguments, in order
    rq_hist,      \* history: the responses received, in order
    \* ---- fetch_relations (utils.py:67-115)
    fr_pc,        \* "idle" | "loop" | "break" | "done"
    fr_args,      \* sort_by, influential_only, since_year, until_year, fetch_limit
    fr_results,   \* results
    fr_offset,    \* offset
    fr_out,       \* the list returned
    fr_offsets,   \* history: the offsets of the page requests, in order
    fr_pages,     \* history: the answers to the page requests, in order
    \* ---- PaperGraph instance (graph.py:53-56)
    G_nodes,      \* self.G nodes: one record per G.add_node call, in order
    G_edges,      \* self.G edges: one record per G.add_edge call, in order
    visited,      \* self.visited
    cache,        \* self._cache: cache_key -> list of (paper, isInfluential)
    \* ---- locals of build (graph.py:116-197)
    pc,           \* position in build
    args,         \* the arguments of build
    root_id,      \* root_id
    queue,        \* queue: sequence of <<pid, depth>>
    cur,          \* (current_pid, current_depth)
    dirIdx,       \* index of m in directions
    items,        \* the part of `items` still to be iterated (line 167)
    nodes,        \* nodes = set(self.G.nodes()) (line 187)
    todo,         \* the part of `nodes` still to be iterated (line 188)
    \* ---- environment and history
    corpus,       \* which relation entries the endpoint holds: "small" | "large"
    relCalls,     \* history: page requests sent to the relation endpoint
    lookups,      \* history: _get_relations calls of the BFS loop (capped)
    lastCall,     \* history: the last _get_relations call
    firstRet,     \* history: cache_key -> value the first call with it returned
    dequeues,     \* history: pid -> times it was popped from the queue (up to 2)
    enqueued      \* history: the pids ever put in the queue

retryVars == <<rq_pc, rq_max, rq_i, rq_result, rq_sent, rq_waits, rq_hist>>
fetchVars == <<fr_pc, fr_args, fr_results, fr_offset, fr_out, fr_offsets,
               fr_pages>>
utilsVars == <<retryVars, fetchVars>>
graphVars == <<G_nodes, G_edges, visited>>
cacheVars == <<cache, lastCall, firstRet>>
buildVars == <<pc, args, root_id, queue, cur, dirIdx, items, nodes, todo,
               corpus, relCalls, lookups, dequeues, enqueued>>
vars == <<utilsVars, graphVars, cacheVars, buildVars>>

(***************************************************************************)
(* Values                                                                  *)
(***************************************************************************)
\* Python None for an id, a payload or a record.
NoId == "None"
\* since_year / until_year / year: None and 0 are both falsy in the filter.
NoYear == 0

Papers == {"X", "A", "B"}

\* paper.citationCount and paper.year as the endpoint reports them ("C" and
\* "D" are papers of worked examples only).
CitationCountOf(p) ==
    CASE p = "X" -> 30 [] p = "A" -> 80 [] p = "B" -> 50
      [] p = "C" -> 10 [] p = "D" -> 5 [] OTHER -> 0
YearOf(p) ==
    CASE p = "X" -> 2019 [] p = "A" -> 2017 [] p = "B" -> 2021 [] OTHER -> NoYear

\* Every value a paperId takes in a build.
Ids == Papers \cup {"C", NoId}

Last(s) == s[Len(s)]
Min(a, b) == IF a <= b THEN a ELSE b

(***************************************************************************)
(* request_with_retry  (utils.py:9-26)                                     *)
(***************************************************************************)
\* Largest max_retries tried (the graph builder's default is 10).
MaxRetries == 10

StatusOK == 200
StatusRateLimited == 429
\* requests.RequestException: a transport fault has no status code.
Fault == -1
Responses == {StatusOK, StatusRateLimited, 404, 500, Fault}

RetryInit ==
    /\ rq_pc = "idle"
    /\ rq_max = 0
    /\ rq_i = 0
    /\ rq_result = "pending"
    /\ rq_sent = 0
    /\ rq_waits = <<>>
    /\ rq_hist = <<>>

\* The call: max_retries is the caller's choice.
RetryCall ==
    /\ rq_pc = "idle"
    /\ \E m \in 0..MaxRetries : rq_max' = m
    /\ rq_pc' = "loop"
    /\ UNCHANGED <<rq_i, rq_result, rq_sent, rq_waits, rq_hist>>

\* wait = (i + 1) * 3   (line 17)
RetryWaitBroken(i) == i * 3
RetryWait(i) == (i + 1) * 3

\* What one response does to the loop (lines 14-24): "return" or "continue".
OnResponseBroken(resp) ==
    CASE resp = StatusOK -> "return payload"
      [] resp = StatusRateLimited -> "continue"
      [] resp = Fault -> "return None"
      [] OTHER -> "continue"
OnResponse(resp) ==
    CASE resp = StatusOK -> "return payload"
      [] resp = StatusRateLimited -> "continue"
      [] OTHER -> "return None"

\* One iteration of `for i in range(max_retries)` (lines 11-24).
RetryAttempt ==
    /\ rq_pc = "loop"
    /\ rq_i < rq_max
    /\ \E resp \in Responses :
        /\ rq_sent' = rq_sent + 1
        /\ rq_hist' = Append(rq_hist, resp)
        /\ CASE OnResponse(resp) = "return payload" ->
                  /\ rq_result' = "payload"
                  /\ rq_pc' = "done"
                  /\ UNCHANGED <<rq_i, rq_waits>>
             [] OnResponse(resp) = "continue" ->
                  /\ rq_waits' = Append(rq_waits, RetryWait(rq_i))
                  /\ rq_i' = rq_i + 1
                  /\ UNCHANGED <<rq_result, rq_pc>>
             [] OTHER ->
                  /\ rq_result' = "None"
                  /\ rq_pc' = "done"
                  /\ UNCHANGED <<rq_i, rq_waits>>
    /\ UNCHANGED rq_max

\* The loop ran out (lines 25-26).
RetryExhausted ==
    /\ rq_pc = "loop"
    /\ rq_i >= rq_max
    /\ rq_result' = "None"
    /\ rq_pc' = "done"
    /\ UNCHANGED <<rq_max, rq_i, rq_sent, rq_waits, rq_hist>>

(***************************************************************************)
(* sort_papers, fetch_relations  (utils.py:43-115)                         *)
(***************************************************************************)
\* One relation entry of the endpoint: the related paper's id (NoId when the
\* entry carries no paper or no paperId) and the entry's isInfluential flag.
Entries == [paper : Papers \cup {NoId}, inf : BOOLEAN]

\* The "limit" of one page request (line 88), scaled from 1000 to 2 so that
\* full pages fit the model; every comparison with it is kept.
PageSize == 2

\* One answer of request_with_retry to a page request: ok = FALSE is None.
FailPage == [ok |-> FALSE, data |-> <<>>]
EmptyPage == [ok |-> TRUE, data |-> <<>>]

\* dims of key_fn (lines 51-55).
Dim(x, k) ==
    CASE k = "citation" -> CitationCountOf(x.paper)
      [] k = "influential" -> IF x.inf THEN 1 ELSE 0
      [] OTHER -> YearOf(x.paper)

\* order: the strategy moved to the front of the default order (lines 57-60).
KeyOrder(strategy) ==
    CASE strategy = "influential" -> <<"influential", "citation", "year">>
      [] strategy = "year" -> <<"year", "citation", "influential">>
      [] OTHER -> <<"citation", "influential", "year">>

key_fn(x, strategy) == [i \in 1..3 |-> Dim(x, KeyOrder(strategy)[i])]

\* Tuple comparison a < b.
KeyLess(a, b) ==
    \E i \in 1..3 : a[i] < b[i] /\ \A j \in 1..(i - 1) : a[j] = b[j]

\* x put into the descending list s behind every entry whose key is >= its own.
RECURSIVE InsertDesc(_, _, _)
InsertDesc(x, s, strategy) ==
    IF s = <<>> THEN <<x>>
    ELSE IF KeyLess(key_fn(Head(s), strategy), key_fn(x, strategy))
         THEN <<x>> \o s
         ELSE <<Head(s)>> \o InsertDesc(x, Tail(s), strategy)

\* papers.sort(key=key_fn, reverse=True): descending and stable (line 63).
RECURSIVE sort_papers(_, _)
sort_papers(papers, strategy) ==
    IF papers = <<>> THEN <<>>
    ELSE InsertDesc(Last(papers),
                    sort_papers(SubSeq(papers, 1, Len(papers) - 1), strategy),
                    strategy)

\* passes_filter (lines 101-109).
passes_filterBroken(x, influential_only, since_year, until_year) ==
    LET year == YearOf(x.paper) IN
    /\ ~(influential_only /\ ~x.inf)
    /\ ~(since_year # NoYear /\ (year = NoYear \/ year <= since_year))
    /\ ~(until_year # NoYear /\ (year = NoYear \/ year > until_year))
passes_filter(x, influential_only, since_year, until_year) ==
    LET year == YearOf(x.paper) IN
    /\ ~(influential_only /\ ~x.inf)
    /\ ~(since_year # NoYear /\ (year = NoYear \/ year < since_year))
    /\ ~(until_year # NoYear /\ (year = NoYear \/ year > until_year))

RECURSIVE FilterSeq(_, _, _, _)
FilterSeq(s, influential_only, since_year, until_year) ==
    IF s = <<>> THEN <<>>
    ELSE LET rest == FilterSeq(Tail(s), influential_only, since_year, until_year) IN
         IF passes_filter(Head(s), influential_only, since_year, until_year)
         THEN <<Head(s)>> \o rest
         ELSE rest

\* The answer to the k-th page request; the endpoint has nothing behind the
\* pages of the feed.
PageAt(feed, k) == IF k <= Len(feed) THEN feed[k] ELSE EmptyPage

\* `len(batch) < 1000` (line 94)
ShortBatchBroken(batch) == FALSE
ShortBatch(batch) == Len(batch) < PageSize

\* The while loop (lines 85-98): results so far, n page requests sent.
RECURSIVE FetchLoop(_, _, _, _, _)
FetchLoop(results, n, failed, feed, fetch_limit) ==
    IF ~(Len(results) < fetch_limit)
    THEN [results |-> results, requests |-> n, failed |-> failed]
    ELSE LET page == PageAt(feed, n + 1)
             batch == page.data
         IN  IF ~page.ok \/ batch = <<>>
             THEN [results |-> results, requests |-> n + 1,
                   failed |-> failed \/ ~page.ok]
             ELSE IF ShortBatch(batch)
             THEN [results |-> results \o batch, requests |-> n + 1,
                   failed |-> failed]
             ELSE FetchLoop(results \o batch, n + 1, failed, feed, fetch_limit)

\* fetch_relations with num_results = None (lines 67-115): the filtered and
\* sorted list, the number of page requests and whether one of them failed.
fetch_relations(feed, sort_by, influential_only, since, until, fetch_limit) ==
    LET got == FetchLoop(<<>>, 0, FALSE, feed, fetch_limit) IN
    [items |-> sort_papers(FilterSeq(got.results, influential_only,
                                     since, until), sort_by),
     requests |-> got.requests,
     failed |-> got.failed]

(***************************************************************************)
(* fetch_relations, one page request per step  (utils.py:67-115)           *)
(***************************************************************************)
\* Largest fetch_limit tried on its own.
MaxFetchLimit == 4

SortKeys == {"citation", "year", "influential"}

FetchArgs ==
    [sort_by : SortKeys, influential_only : BOOLEAN,
     since_year : {NoYear, 2019}, until_year : {NoYear, 2019},
     fetch_limit : 1..MaxFetchLimit]

\* What the endpoint may put in a page.
FetchEntries ==
    {[paper |-> "A", inf |-> TRUE], [paper |-> "B", inf |-> FALSE],
     [paper |-> "X", inf |-> TRUE], [paper |-> NoId, inf |-> FALSE]}

\* The lists of at most n entries of S.
Lists(S, n) == UNION {[1..k -> S] : k \in 0..n}

\* The answers to one page request: None, or up to `limit` entries.
Pages ==
    {FailPage} \cup {[ok |-> TRUE, data |-> l] : l \in Lists(FetchEntries, PageSize)}

FetchIdle ==
    /\ fr_pc = "idle"
    /\ fr_args = <<>>
    /\ fr_results = <<>>
    /\ fr_offset = 0
    /\ fr_out = <<>>
    /\ fr_offsets = <<>>
    /\ fr_pages = <<>>

\* The call: results, offset = [], 0 (line 83).
FetchInit ==
    /\ fr_pc = "loop"
    /\ fr_args \in FetchArgs
    /\ fr_results = <<>>
    /\ fr_offset = 0
    /\ fr_out = <<>>
    /\ fr_offsets = <<>>
    /\ fr_pages = <<>>

\* One iteration of the while loop (lines 85-98).
FetchPage ==
    /\ fr_pc = "loop"
    /\ Len(fr_results) < fr_args.fetch_limit
    /\ \E page \in Pages :
         LET batch == page.data IN
         /\ fr_offsets' = Append(fr_offsets, fr_offset)
         /\ fr_pages' = Append(fr_pages, page)
         /\ IF ~page.ok \/ batch = <<>>
            THEN fr_pc' = "break" /\ UNCHANGED <<fr_results, fr_offset>>
            ELSE /\ fr_results' = fr_results \o batch
                 /\ IF ShortBatch(batch)
                    THEN fr_pc' = "break" /\ UNCHANGED fr_offset
                    ELSE fr_pc' = "loop" /\ fr_offset' = fr_offset + PageSize
    /\ UNCHANGED <<fr_args, fr_out>>

\* After the loop: filter, sort, return (lines 100-115).
FetchReturn ==
    /\ \/ fr_pc = "break"
       \/ fr_pc = "loop" /\ ~(Len(fr_results) < fr_args.fetch_limit)
    /\ fr_out' = sort_papers(FilterSeq(fr_results, fr_args.influential_only,
                                       fr_args.since_year, fr_args.until_year),
                             fr_args.sort_by)
    /\ fr_pc' = "done"
    /\ UNCHANGED <<fr_args, fr_results, fr_offset, fr_offsets, fr_pages>>

(***************************************************************************)
(* PaperGraph._get_relations  (graph.py:92-104)                            *)
(***************************************************************************)
RelationTypes == {"references", "citations"}

\* cache_key (line 96)
cache_key(paper_id, relation_type, influential_only, since_year, until_year) ==
    <<paper_id, relation_type, influential_only, since_year, until_year>>

\* `cache_key not in self._cache` (line 97)
CacheMissBroken(c, key) == key \notin DOMAIN c \/ c[key] = <<>>
CacheMiss(c, key) == key \notin DOMAIN c

\* _get_relations: the cache afterwards, the list returned, and the page
\* requests sent; r is what the fetch_relations call of lines 98-101 gives
\* if it is made.
get_relations(c, key, r) ==
    IF CacheMiss(c, key)
    THEN [cache |-> (key :> r.items) @@ c, value |-> r.items,
          requests |-> r.requests, failed |-> r.failed]
    ELSE [cache |-> c, value |-> c[key], requests |-> 0, failed |-> FALSE]

\* The endpoint's answers to the page requests of one retrieval: a list of
\* at most n entries cut into pages, or such pages followed by a failure.
RECURSIVE Paginate(_)
Paginate(list) ==
    IF Len(list) <= PageSize THEN <<[ok |-> TRUE, data |-> list]>>
    ELSE <<[ok |-> TRUE, data |-> SubSeq(list, 1, PageSize)]>>
         \o Paginate(SubSeq(list, PageSize + 1, Len(list)))

Feeds(S, n) ==
    {Paginate(l) : l \in Lists(S, n)}
    \cup {<<FailPage>>}
    \cup {Paginate(l) \o <<FailPage>> : l \in [1..PageSize -> S]}

(***************************************************************************)
(* A sequence of _get_relations calls on one PaperGraph                    *)
(***************************************************************************)
\* Number of distinct cache keys the calls of one sequence use; the number
\* of calls is not bounded.
MaxKeys == 2

NoCall == [key |-> <<>>, fetch_limit |-> 0, value |-> <<>>, requests |-> 0,
           repeat |-> FALSE]

\* The queries tried: a base query and those that differ from it in one
\* component of the cache key; each with two fetch limits.
BaseQuery == cache_key("X", "references", FALSE, NoYear, NoYear)
AllQueries == {"X", "A"} \X RelationTypes \X BOOLEAN \X {NoYear, 2018}
              \X {NoYear, 2020}
Queries == {q \in AllQueries :
              Cardinality({i \in 1..5 : q[i] # BaseQuery[i]}) <= 1}
FetchLimits == {1, PageSize + 1}

\* What the endpoint may hold for one query: up to PageSize + 1 entries.
CacheEntries == {[paper |-> "A", inf |-> TRUE], [paper |-> "B", inf |-> FALSE]}
CacheFeeds == Feeds(CacheEntries, PageSize + 1)

\* The fetch_relations call of _get_relations (lines 98-101) by its filter
\* arguments, its fetch limit and the feed the endpoint answers with.
CacheFetched ==
    [io \in BOOLEAN, since \in {NoYear, 2018}, until \in {NoYear, 2020},
     fetch_limit \in FetchLimits, feed \in CacheFeeds |->
       fetch_relations(feed, "citation", io, since, until, fetch_limit)]

GraphIdle ==
    /\ G_nodes = <<>>
    /\ G_edges = <<>>
    /\ visited = {}

BuildIdle ==
    /\ pc = "idle"
    /\ args = <<>>
    /\ root_id = NoId
    /\ queue = <<>>
    /\ cur = <<>>
    /\ dirIdx = 0
    /\ items = <<>>
    /\ nodes = {}
    /\ todo = {}
    /\ corpus = "small"
    /\ relCalls = 0
    /\ lookups = 0
    /\ dequeues = [p \in Ids |-> 0]
    /\ enqueued = {}

CacheIdle ==
    /\ cache = <<>>
    /\ lastCall = NoCall
    /\ firstRet = <<>>

\* One call self._get_relations(...) from outside build.
GetRelations ==
    /\ \E key \in Queries, fetch_limit \in FetchLimits :
         /\ key \in DOMAIN cache \/ Cardinality(DOMAIN cache) < MaxKeys
         /\ \E feed \in (IF CacheMiss(cache, key) THEN CacheFeeds ELSE {<<>>}) :
              LET r == get_relations(cache, key,
                                     CacheFetched[key[3], key[4], key[5],
                                                  fetch_limit, feed]) IN
              /\ cache' = r.cache
              /\ lastCall' = [key |-> key, fetch_limit |-> fetch_limit,
                              value |-> r.value,
                              requests |-> r.requests,
                              repeat |-> key \in DOMAIN firstRet]
              /\ firstRet' =
                   IF key \in DOMAIN firstRet THEN firstRet
                   ELSE (key :> [value |-> r.value, failed |-> r.failed])
                        @@ firstRet
    /\ UNCHANGED <<utilsVars, graphVars, buildVars>>

(***************************************************************************)
(* PaperGraph.add_node, PaperGraph._add_edge  (graph.py:58-90, 106-114)    *)
(***************************************************************************)
NodeIds(ns) == {ns[i].id : i \in 1..Len(ns)}

\* self.G.has_node(pid)
has_node(ns, p) == p \in NodeIds(ns)

\* self.G.has_edge(source, target)
has_edge(es, source, target) ==
    \E i \in 1..Len(es) : es[i].source = source /\ es[i].target = target

\* The attributes of a new node that depend on the layer (lines 78-83); the
\* layer argument itself is kept with the node as history.
NodeRecord(p, layer) ==
    [id |-> p, layer |-> layer,
     border |-> IF layer = 0 THEN "#0066ff" ELSE "#888888",
     borderWidth |-> IF layer = 0 THEN 3 ELSE 1]

\* add_node without the has_node test: a second record for the id.
add_nodeTwice(ns, p, layer) ==
    IF p = NoId THEN ns ELSE Append(ns, NodeRecord(p, layer))

\* add_node without the has_node test, where G.add_node on a node that is
\* there rewrites its attributes.
add_nodeOverwrite(ns, p, layer) ==
    IF p = NoId THEN ns
    ELSE IF has_node(ns, p)
         THEN [i \in 1..Len(ns) |->
                 IF ns[i].id = p THEN NodeRecord(p, layer) ELSE ns[i]]
         ELSE Append(ns, NodeRecord(p, layer))

\* add_node(paper_info, layer): the nodes afterwards.  p = NoId stands for a
\* paper_info that is None or carries no paperId (lines 60-65).
add_node(ns, p, layer) ==
    IF p = NoId THEN ns
    ELSE IF has_node(ns, p) THEN ns
    ELSE Append(ns, NodeRecord(p, layer))

\* The attributes of a new edge (lines 112-114).
EdgeRecord(source, target, is_influential) ==
    [source |-> source, target |-> target,
     color |-> IF is_influential THEN "#666666" ELSE "#dddddd",
     width |-> IF is_influential THEN 3 ELSE 1]

\* _add_edge without the has_edge test, where G.add_edge on an edge that is
\* there rewrites its attributes.
add_edgeOverwrite(ns, es, source, target, is_influential) ==
    IF ~has_node(ns, source) \/ ~has_node(ns, target) THEN es
    ELSE IF has_edge(es, source, target)
         THEN [i \in 1..Len(es) |->
                 IF es[i].source = source /\ es[i].target = target
                 THEN EdgeRecord(source, target, is_influential)
                 ELSE es[i]]
         ELSE Append(es, EdgeRecord(source, target, is_influential))

\* _add_edge without the has_node tests.
add_edgeAnyEnds(ns, es, source, target, is_influential) ==
    IF has_edge(es, source, target) THEN es
    ELSE Append(es, EdgeRecord(source, target, is_influential))

\* _add_edge without the has_edge test.
add_edgeTwice(ns, es, source, target, is_influential) ==
    IF ~has_node(ns, source) \/ ~has_node(ns, target) THEN es
    ELSE Append(es, EdgeRecord(source, target, is_influential))

\* _add_edge(source, target, is_influential): the edges afterwards.
\* G.add_edge is reached only with both ends in the graph.
add_edge(ns, es, source, target, is_influential) ==
    IF ~has_node(ns, source) \/ ~has_node(ns, target) THEN es
    ELSE IF has_edge(es, source, target) THEN es
    ELSE Append(es, EdgeRecord(source, target, is_influential))

(***************************************************************************)
(* PaperGraph.build  (graph.py:116-197)                                    *)
(***************************************************************************)
\* Largest depth argument tried.
MaxDepth == 3
\* Most relation entries the cache holds at the end of one build.
MaxCached == 4
\* The count of BFS lookups is kept up to this number.
MaxLookups == 9
\* The default fetch_limit (line 117): 10000 entries are 10 pages.
DefaultFetchLimit == 10 * PageSize

Modes == {"references", "citations", "all"}
WidthChoices == {<<1>>, <<2, 1>>}
\* The id the search endpoint finds for start_title.
SeedId == "X"
\* The paperId of the seed's detail record: the seed's, or none.
DetailIds == {SeedId, NoId}

BuildArgs ==
    [mode : Modes, depth : 0..MaxDepth, widths : WidthChoices,
     influential_only : BOOLEAN, since_year : {NoYear}, until_year : {NoYear},
     fetch_limit : {DefaultFetchLimit}]

\* directions (line 145)
directions(mode) ==
    IF mode = "all" THEN <<"references", "citations">> ELSE <<mode>>

\* cur_width (line 159); Python indexes from 0.
cur_widthBroken(widths, current_depth) ==
    widths[Min(current_depth, Len(widths) - 1) + 1] + 1
cur_width(widths, current_depth) ==
    widths[Min(current_depth, Len(widths) - 1) + 1]

\* value[:n]
TakeBroken(s, n) == s
Take(s, n) == SubSeq(s, 1, Min(n, Len(s)))

\* The entries of the slice the inner loop acts on: those with a paper and a
\* paperId (lines 165, 168-169).
HasId(x) == x.paper # NoId

BuildKey(p, m) ==
    cache_key(p, m, args.influential_only, args.since_year, args.until_year)

\* The relation entries the endpoint holds during a build.
BuildEntries ==
    {[paper |-> "X", inf |-> TRUE], [paper |-> "A", inf |-> TRUE],
     [paper |-> "B", inf |-> FALSE], [paper |-> NoId, inf |-> FALSE]}

\* The relation entries of the large corpus: a fourth paper, C.
LargeEntries == BuildEntries \cup {[paper |-> "C", inf |-> FALSE]}

\* The builds tried on the large corpus: the deepest and widest, unfiltered.
LargeBuildArgs ==
    {a \in BuildArgs : /\ a.mode = "references"
                       /\ a.depth = MaxDepth
                       /\ a.widths = <<2, 1>>
                       /\ ~a.influential_only}

\* The feeds the endpoint may answer a retrieval with during a build: up to
\* one full page of entries.
BuildFeeds == Feeds(BuildEntries, PageSize)
LargeFeeds == Feeds(LargeEntries, PageSize)

\* Number of entries in the cache c.
RECURSIVE CachedIn(_, _)
CachedIn(c, keys) ==
    IF keys = {} THEN 0
    ELSE LET k == CHOOSE k \in keys : TRUE
         IN  Len(c[k]) + CachedIn(c, keys \ {k})
Cached(c) == CachedIn(c, DOMAIN c)

\* The feeds of which at most n entries pass the filter of a build whose
\* influential_only is io.
FeedsKeeping ==
    [which \in {"small", "large"}, io \in BOOLEAN, n \in 0..PageSize |->
       {f \in (IF which = "small" THEN BuildFeeds ELSE LargeFeeds) :
          Len(fetch_relations(f, "citation", io, NoYear, NoYear,
                              DefaultFetchLimit).items) <= n}]

\* The fetch_relations call of _get_relations (lines 98-101) in a build, by
\* influential_only and the feed the endpoint answers with.
BuildFetched ==
    [io \in BOOLEAN, feed \in LargeFeeds |->
       fetch_relations(feed, "citation", io, NoYear, NoYear, DefaultFetchLimit)]

\* The answers of the endpoint to a retrieval that misses the cache c: the
\* cache holds at most MaxCached entries afterwards.
FeedsFor(c, key) ==
    IF CacheMiss(c, key)
    THEN LET room == MaxCached - Cached(c) IN
         FeedsKeeping[corpus, args.influential_only,
                      IF room < 0 THEN 0 ELSE Min(PageSize, room)]
    ELSE {<<>>}

BuildInit ==
    /\ pc = "search"
    /\ \/ args \in BuildArgs /\ corpus = "small"
       \/ args \in LargeBuildArgs /\ corpus = "large"
    /\ root_id = NoId
    /\ queue = <<>>
    /\ cur = <<>>
    /\ dirIdx = 0
    /\ items = <<>>
    /\ nodes = {}
    /\ todo = {}
    /\ relCalls = 0
    /\ lookups = 0
    /\ dequeues = [p \in Ids |-> 0]
    /\ enqueued = {}

\* The answers of request_with_retry to the search request: None, a result
\* without a match, or the best match.
SearchResponses ==
    {[ok |-> FALSE, data |-> <<>>], [ok |-> TRUE, data |-> <<>>],
     [ok |-> TRUE, data |-> <<SeedId>>]}

\* search_paper (utils.py:29-40): the paperId of the first match, or None.
search_paper(resp) ==
    IF resp.ok /\ resp.data # <<>> THEN resp.data[1] ELSE NoId

\* `if not root_id` (line 127)
NoSeedBroken(id) == FALSE
NoSeed(id) == id = NoId

\* The seed search (lines 126-128).
Search ==
    /\ pc = "search"
    /\ \E resp \in SearchResponses :
         /\ root_id' = search_paper(resp)
         /\ pc' = IF NoSeed(root_id') THEN "aborted" ELSE "root"
    /\ UNCHANGED <<args, corpus, queue, cur, dirIdx, items, nodes, todo,
                   relCalls, lookups, dequeues, enqueued>>
    /\ UNCHANGED <<utilsVars, graphVars, cacheVars>>

\* The seed's details (lines 134-146): None, or a record whose paperId is
\* the id asked for or is missing.
FetchRoot ==
    /\ pc = "root"
    /\ \E ok \in BOOLEAN, detail \in DetailIds :
         IF ~ok
         THEN /\ detail = NoId
              /\ pc' = "aborted"
              /\ UNCHANGED <<G_nodes, visited, queue, enqueued>>
         ELSE /\ G_nodes' = add_node(G_nodes, detail, 0)
              /\ visited' = visited \cup {root_id}
              /\ queue' = <<<<root_id, 0>>>>
              /\ enqueued' = enqueued \cup {root_id}
              /\ pc' = "loop"
    /\ UNCHANGED <<args, corpus, root_id, cur, dirIdx, items, nodes, todo,
                   relCalls, lookups, dequeues>>
    /\ UNCHANGED <<utilsVars, G_edges, cacheVars>>

\* `current_depth >= depth` (line 151)
DepthReachedBroken(current_depth, depth) == current_depth > depth
DepthReached(current_depth, depth) == current_depth >= depth

\* The place in the queue that queue.pop(0) takes (line 149), counted from 1;
\* queue.pop() would take the last.
PopIndexBroken(q) == Len(q)
PopIndex(q) == 1

\* The queue after queue.pop(0) (line 149).
PoppedBroken(q) == q
Popped(q) ==
    SubSeq(q, 1, PopIndex(q) - 1) \o SubSeq(q, PopIndex(q) + 1, Len(q))

\* queue.pop(0) and the depth test (lines 148-152).
Pop ==
    /\ pc = "loop"
    /\ queue # <<>>
    /\ cur' = queue[PopIndex(queue)]
    /\ queue' = Popped(queue)
    /\ dequeues' = [dequeues EXCEPT ![cur'[1]] = Min(@ + 1, 2)]
    /\ IF DepthReached(cur'[2], args.depth)
       THEN pc' = "loop" /\ UNCHANGED dirIdx
       ELSE pc' = "dir" /\ dirIdx' = 1
    /\ UNCHANGED <<args, corpus, root_id, items, nodes, todo,
                   relCalls, lookups, enqueued>>
    /\ UNCHANGED <<utilsVars, graphVars, cacheVars>>

\* Where the loops go once `left` is what remains of items: the next item,
\* the next direction, or the next queue entry (lines 155, 167, 183).
AfterItems(left) ==
    IF left # <<>> THEN pc' = "items" /\ UNCHANGED dirIdx
    ELSE /\ dirIdx' = dirIdx + 1
         /\ pc' = IF dirIdx + 1 > Len(directions(args.mode))
                  THEN "loop" ELSE "dir"

\* One direction m of the dequeues node: the lookup and the slice
\* (lines 155-165).
Lookup ==
    /\ pc = "dir"
    /\ LET key == BuildKey(cur[1], directions(args.mode)[dirIdx]) IN
       \E feed \in FeedsFor(cache, key) :
         LET r == get_relations(cache, key,
                                 BuildFetched[args.influential_only, feed])
             slice == Take(r.value, cur_width(args.widths, cur[2]))
         IN  /\ cache' = r.cache
             /\ relCalls' = relCalls + r.requests
             /\ lookups' = Min(lookups + 1, MaxLookups)
             /\ items' = SelectSeq(slice, HasId)
             /\ AfterItems(items')
    /\ UNCHANGED <<args, corpus, root_id, queue, cur, nodes, todo,
                   dequeues, enqueued>>
    /\ UNCHANGED <<utilsVars, graphVars, lastCall, firstRet>>

\* `target_id not in self.visited` (line 178)
NotVisitedBroken(v, target_id) == TRUE
NotVisited(v, target_id) == target_id \notin v

\* `current_depth + 1 < depth` (line 180)
MayEnqueueBroken(current_depth, depth) == current_depth < depth
MayEnqueue(current_depth, depth) == current_depth + 1 < depth

\* `self.visited.add(target_id)` (line 179), which comes before the depth
\* test of line 180 and does not depend on it; may_enqueue is that test.
MarkedBroken(v, target_id, may_enqueue) ==
    IF may_enqueue THEN v \cup {target_id} ELSE v
Marked(v, target_id, may_enqueue) == v \cup {target_id}

\* The (source, target) of the edge for target_id found in direction m from
\* current_pid (lines 173-176).
EdgeEndsBroken(m, current_pid, target_id) == <<current_pid, target_id>>
EdgeEnds(m, current_pid, target_id) ==
    IF m = "references" THEN <<current_pid, target_id>>
    ELSE <<target_id, current_pid>>

\* One entry of items (lines 167-181).
Item ==
    /\ pc = "items"
    /\ LET target_id == Head(items).paper
           is_influential == Head(items).inf
           current_pid == cur[1]
           current_depth == cur[2]
           m == directions(args.mode)[dirIdx]
           ns == add_node(G_nodes, target_id, current_depth + 1)
           ends == EdgeEnds(m, current_pid, target_id)
       IN  /\ G_nodes' = ns
           /\ G_edges' = add_edge(ns, G_edges, ends[1], ends[2], is_influential)
           /\ IF NotVisited(visited, target_id)
              THEN /\ visited' = Marked(visited, target_id,
                                          MayEnqueue(current_depth, args.depth))
                   /\ IF MayEnqueue(current_depth, args.depth)
                      THEN /\ queue' = Append(queue,
                                              <<target_id, current_depth + 1>>)
                           /\ enqueued' = enqueued \cup {target_id}
                      ELSE UNCHANGED <<queue, enqueued>>
              ELSE UNCHANGED <<visited, queue, enqueued>>
    /\ items' = Tail(items)
    /\ AfterItems(items')
    /\ UNCHANGED <<args, corpus, root_id, cur, nodes, todo, relCalls, lookups,
                   dequeues>>
    /\ UNCHANGED <<utilsVars, cacheVars>>

\* The queue is empty: nodes = set(self.G.nodes()) (lines 185-187).
DensifyStart ==
    /\ pc = "loop"
    /\ queue = <<>>
    /\ nodes' = NodeIds(G_nodes)
    /\ todo' = NodeIds(G_nodes)
    /\ pc' = "densify"
    /\ UNCHANGED <<args, corpus, root_id, queue, cur, dirIdx, items,
                   relCalls, lookups, dequeues, enqueued>>
    /\ UNCHANGED <<utilsVars, graphVars, cacheVars>>

\* The inner loop cut to the first entry of the list, as an expansion of
\* width 1 is.
DensifyRefsBroken(ns, es, p, list, nodeSet) ==
    IF list = <<>> THEN es
    ELSE IF Head(list).paper \in nodeSet
         THEN add_edge(ns, es, p, Head(list).paper, Head(list).inf)
         ELSE es

\* The inner loop (lines 189-195) over the reference list `list` of pid:
\* the edges afterwards.
RECURSIVE DensifyRefs(_, _, _, _, _)
DensifyRefs(ns, es, p, list, nodeSet) ==
    IF list = <<>> THEN es
    ELSE LET ref_id == Head(list).paper
             is_influential == Head(list).inf
             added == IF ref_id \in nodeSet
                      THEN add_edge(ns, es, p, ref_id, is_influential)
                      ELSE es
         IN  DensifyRefs(ns, added, p, Tail(list), nodeSet)

\* One iteration of `for pid in nodes` (lines 188-195); the ids come in the
\* set's order, which is any order.
DensifyNode ==
    /\ pc = "densify"
    /\ todo # {}
    /\ \E p \in todo :
         LET key == BuildKey(p, "references") IN
         \E feed \in FeedsFor(cache, key) :
           LET r == get_relations(cache, key,
                                 BuildFetched[args.influential_only, feed]) IN
           /\ todo' = todo \ {p}
           /\ cache' = r.cache
           /\ relCalls' = relCalls + r.requests
           /\ G_edges' = DensifyRefs(G_nodes, G_edges, p, r.value, nodes)
    /\ UNCHANGED <<pc, args, corpus, root_id, queue, cur, dirIdx, items, nodes,
                   lookups, dequeues, enqueued>>
    /\ UNCHANGED <<utilsVars, G_nodes, visited, lastCall, firstRet>>

\* Every node has been densified: build returns (line 197).
Finish ==
    /\ pc = "densify"
    /\ todo = {}
    /\ pc' = "done"
    /\ UNCHANGED <<args, corpus, root_id, queue, cur, dirIdx, items, nodes, todo,
                   relCalls, lookups, dequeues, enqueued>>
    /\ UNCHANGED <<utilsVars, graphVars, cacheVars>>

(***************************************************************************)
(* Specifications                                                          *)
(***************************************************************************)
Init == RetryInit /\ FetchIdle /\ GraphIdle /\ CacheIdle /\ BuildInit
Next ==
    \/ Search
    \/ FetchRoot
    \/ Pop
    \/ Lookup
    \/ Item
    \/ DensifyStart
    \/ DensifyNode
    \/ Finish
Spec == Init /\ [][Next]_vars

\* build runs on until it returns: a step that can be taken is taken.
FairSpec == Init /\ [][Next]_vars /\ WF_vars(Next)

InitCache == RetryInit /\ FetchIdle /\ GraphIdle /\ CacheIdle /\ BuildIdle
NextCache == GetRelations
SpecCache == InitCache /\ [][NextCache]_vars

InitRetry == RetryInit /\ FetchIdle /\ GraphIdle /\ CacheIdle /\ BuildIdle
NextRetry ==
    \/ RetryCall /\ UNCHANGED <<fetchVars, graphVars, cacheVars, buildVars>>
    \/ RetryAttempt /\ UNCHANGED <<fetchVars, graphVars, cacheVars, buildVars>>
    \/ RetryExhausted /\ UNCHANGED <<fetchVars, graphVars, cacheVars, buildVars>>
SpecRetry == InitRetry /\ [][NextRetry]_vars

InitFetch == RetryInit /\ FetchInit /\ GraphIdle /\ CacheIdle /\ BuildIdle
NextFetch ==
    \/ FetchPage /\ UNCHANGED <<retryVars, graphVars, cacheVars, buildVars>>
    \/ FetchReturn /\ UNCHANGED <<retryVars, graphVars, cacheVars, buildVars>>
SpecFetch == InitFetch /\ [][NextFetch]_vars

(***************************************************************************)
(* Properties                                                              *)
(***************************************************************************)
PapersOf(list) == {list[i].paper : i \in 1..Len(list)}

\* t is in the cached record of (p, m).
Related(p, m, t) ==
    /\ BuildKey(p, m) \in DOMAIN cache
    /\ t \in PapersOf(cache[BuildKey(p, m)])

NoDuplicateNode ==
    \A i, j \in 1..Len(G_nodes) : G_nodes[i].id = G_nodes[j].id => i = j

NoDuplicateEdge ==
    \A i, j \in 1..Len(G_edges) :
        (G_edges[i].source = G_edges[j].source
         /\ G_edges[i].target = G_edges[j].target) => i = j

\* C1: on one PaperGraph, a _get_relations call whose cache key (paper id,
\* relation type, influential_only, since_year, until_year) is that of an
\* earlier call sends no request and returns the list the first call with
\* that key returned, also when that call's retrieval failed or was empty.
C1_RepeatedCallServedFromCache ==
    lastCall.repeat =>
        /\ lastCall.requests = 0
        /\ lastCall.value = firstRet[lastCall.key].value

\* A repeated call after a first call whose retrieval failed, with nothing
\* retrieved.
C1_Witness ==
    /\ lastCall.repeat
    /\ firstRet[lastCall.key].failed
    /\ firstRet[lastCall.key].value = <<>>
    /\ lastCall.value = <<>>

\* C2: during one build every publication id is popped from the queue at
\* most once, whatever the relation data, and a publication reached from two
\* parents is one node.
C2_ExpandedAtMostOnce ==
    /\ \A p \in DOMAIN dequeues : dequeues[p] <= 1
    /\ NoDuplicateNode

\* The end of a BFS over cyclic data: B was reached from the seed and from
\* A, and the seed came back in the list of B, which was expanded at a depth
\* from which it could still enqueue.
C2_Witness ==
    /\ pc = "loop"
    /\ queue = <<>>
    /\ args.mode = "references"
    /\ args.depth >= 3
    /\ \A p \in Papers : dequeues[p] = 1
    /\ has_edge(G_edges, SeedId, "A")
    /\ has_edge(G_edges, SeedId, "B")
    /\ has_edge(G_edges, "A", "B")
    /\ has_edge(G_edges, "B", SeedId)

\* C3: in every state of a build the nodes hold each publication id at most
\* once and the edges hold each ordered pair (source, target) at most once.
C3_SimpleGraph == NoDuplicateNode /\ NoDuplicateEdge

\* In mode "all" the pair (seed, A) was found from the seed's references and
\* again from A's citations, and densification has met it a third time.
C3_Witness ==
    /\ pc = "done"
    /\ args.mode = "all"
    /\ dequeues["A"] = 1
    /\ Related(SeedId, "references", "A")
    /\ Related("A", "citations", SeedId)
    /\ has_edge(G_edges, SeedId, "A")

\* C4: the layer of a node, and the border colour and width derived from
\* it, are those of the add_node call that inserted the node; no later step
\* changes them or adds a second node record for the id.  So the seed keeps
\* layer 0 when it comes back in the list of a node at depth >= 1.
C4_LayerFixedAtInsertion ==
    [][\A i \in 1..Len(G_nodes) :
          /\ Len(G_nodes') >= i
          /\ \A j \in 1..Len(G_nodes') :
               G_nodes'[j].id = G_nodes[i].id => G_nodes'[j] = G_nodes[i]]_vars

\* The seed, a node of layer 0, was an entry of the list of A, which was
\* expanded at depth 1: the edge A -> seed was added during BFS.
C4_Witness ==
    /\ pc \in {"dir", "items", "loop"}
    /\ args.mode = "references"
    /\ \E i \in 1..Len(G_nodes) :
         G_nodes[i].id = SeedId /\ G_nodes[i].layer = 0
    /\ has_edge(G_edges, "A", SeedId)

\* C5: for a build with maximum depth D >= 0 every node was inserted with a
\* layer in 0..D.
C5_LayerWithinDepth ==
    \A i \in 1..Len(G_nodes) : G_nodes[i].layer \in 0..args.depth

\* A finished build of depth 2 or more with a node on the last layer.
C5_Witness ==
    /\ pc = "done"
    /\ args.depth >= 2
    /\ \E i \in 1..Len(G_nodes) : G_nodes[i].layer = args.depth

\* C6: densification leaves the node set as it was when densification began
\* and only adds edges: the edges of BFS stay, and no ordered pair is added
\* a second time.
C6_DensificationAddsEdgesOnly ==
    /\ pc \in {"densify", "done"} =>
          /\ NodeIds(G_nodes) = nodes
          /\ Len(G_nodes) = Cardinality(nodes)
          /\ NoDuplicateEdge
    /\ pc = "done" => todo = {}

\* A finished build in which densification met an edge that BFS had added
\* (seed -> A) and added one that BFS had not (A -> B).
C6_Witness ==
    /\ pc = "done"
    /\ args.mode = "references"
    /\ args.depth = 1
    /\ Related(SeedId, "references", "A")
    /\ has_edge(G_edges, SeedId, "A")
    /\ has_edge(G_edges, "A", "B")

\* C7: for every depth, width sequence and relation data, cyclic data
\* included, the BFS loop comes to an empty queue and build returns.
C7_BuildTerminates == <>(pc \in {"done", "aborted"} /\ queue = <<>>)

\* A finished build over cyclic data: A, expanded at depth 1 of 3, had the
\* seed in its list.
C7_Witness ==
    /\ pc = "done"
    /\ queue = <<>>
    /\ args.depth >= 3
    /\ dequeues["A"] = 1
    /\ has_edge(G_edges, SeedId, "A")
    /\ has_edge(G_edges, "A", SeedId)
    /\ Related("A", "references", SeedId)

\* C8: when the seed search finds no match or fails, build is aborted with
\* no node, no edge, nothing visited, nothing cached and no relation request.
C8_NoSeedNoGraph ==
    (pc # "search" /\ root_id = NoId) =>
        /\ pc = "aborted"
        /\ G_nodes = <<>>
        /\ G_edges = <<>>
        /\ visited = {}
        /\ cache = <<>>
        /\ relCalls = 0

\* The search is over and gave no seed.
C8_Witness == pc = "aborted" /\ root_id = NoId

\* The responses so far are all 429.
OnlyRateLimited(h) == \A i \in 1..Len(h) : h[i] = StatusRateLimited

\* C9: on a 429 at attempt index i request_with_retry waits (i+1)*3 seconds
\* and retries.  k < max_retries 429s and then a 200 give the payload after
\* k+1 requests and the waits 3, 6, ..., 3k; max_retries 429s give None after
\* max_retries requests.
C9_RateLimitBackoff ==
    /\ rq_waits = [i \in 1..Len(rq_waits) |-> 3 * i]
    /\ (rq_hist # <<>> /\ Last(rq_hist) = StatusOK
        /\ OnlyRateLimited(SubSeq(rq_hist, 1, Len(rq_hist) - 1))) =>
           /\ rq_pc = "done"
           /\ rq_result = "payload"
           /\ Len(rq_hist) <= rq_max
           /\ rq_sent = Len(rq_hist)
           /\ Len(rq_waits) = Len(rq_hist) - 1
    /\ (rq_pc = "done" /\ Len(rq_hist) = rq_max /\ OnlyRateLimited(rq_hist)) =>
           /\ rq_result = "None"
           /\ rq_sent = rq_max
           /\ Len(rq_waits) = rq_max

\* Three 429s and then a 200: the payload after the waits 3, 6 and 9.
C9_Witness ==
    /\ rq_pc = "done"
    /\ rq_hist = <<StatusRateLimited, StatusRateLimited, StatusRateLimited,
                   StatusOK>>
    /\ rq_waits = <<3, 6, 9>>
    /\ rq_result = "payload"

\* C10: the first response that is neither 200 nor 429, or the first
\* transport fault, ends request_with_retry with None: it is the last
\* response of the call, whatever number of retries remains.
C10_OtherFailureEndsCall ==
    \A n \in 1..Len(rq_hist) :
        rq_hist[n] \notin {StatusOK, StatusRateLimited} =>
            /\ n = Len(rq_hist)
            /\ rq_pc = "done"
            /\ rq_result = "None"
            /\ rq_sent = n

\* A transport fault after a 429, with retries left.
C10_Witness ==
    /\ rq_pc = "done"
    /\ Len(rq_hist) = 2
    /\ rq_hist[1] = StatusRateLimited
    /\ rq_hist[2] = Fault
    /\ rq_max >= 4
    /\ rq_result = "None"

\* The entries of the pages, in order; a None page has none.
RECURSIVE Gathered(_)
Gathered(pages) ==
    IF pages = <<>> THEN <<>> ELSE Head(pages).data \o Gathered(Tail(pages))

\* C11: fetch_relations asks for the pages at offsets 0, 1000, 2000, ...
\* (0, PageSize, 2*PageSize, ... here), each only while fewer than
\* fetch_limit entries are accumulated, and asks for no page after one that
\* is None, empty or short of a full page.  It returns the filtered and
\* sorted entries of the pages received, those before a None page included.
C11_Pagination ==
    /\ Len(fr_pages) = Len(fr_offsets)
    /\ fr_offsets = [i \in 1..Len(fr_offsets) |-> (i - 1) * PageSize]
    /\ \A i \in 1..Len(fr_pages) :
         /\ (i - 1) * PageSize < fr_args.fetch_limit
         /\ i < Len(fr_pages) =>
              fr_pages[i].ok /\ Len(fr_pages[i].data) = PageSize
    /\ fr_pc = "done" =>
         /\ fr_pages # <<>>
         /\ \/ ~Last(fr_pages).ok
            \/ Len(Last(fr_pages).data) < PageSize
            \/ Len(Gathered(fr_pages)) >= fr_args.fetch_limit
         /\ fr_out = sort_papers(FilterSeq(Gathered(fr_pages),
                                           fr_args.influential_only,
                                           fr_args.since_year,
                                           fr_args.until_year),
                                 fr_args.sort_by)
         /\ fr_out = fetch_relations(fr_pages, fr_args.sort_by,
                                     fr_args.influential_only,
                                     fr_args.since_year, fr_args.until_year,
                                     fr_args.fetch_limit).items

\* A full page and then None: the entries of the full page are returned.
C11_Witness ==
    /\ fr_pc = "done"
    /\ fr_offsets = <<0, PageSize>>
    /\ fr_pages[1].ok
    /\ ~fr_pages[2].ok
    /\ Len(fr_out) = PageSize

\* C12: every relation record stored in the cache has at most fetch_limit
\* entries, fetch_limit >= 1 being that of the call that stored it, whatever
\* pages the endpoint returned.
C12_RecordWithinFetchLimit ==
    (lastCall # NoCall /\ ~lastCall.repeat) =>
        Len(cache[lastCall.key]) <= lastCall.fetch_limit

\* The record of the (node, direction) being expanded.
CurRecord == cache[BuildKey(cur[1], directions(args.mode)[dirIdx])]

\* widths[min(d, len(widths) - 1)], counted from 1.
WidthAt(d) ==
    args.widths[(IF d <= Len(args.widths) - 1 THEN d ELSE Len(args.widths) - 1)
                + 1]

\* t is among the first WidthAt(depth of the node being expanded) entries of
\* its record.
InSlice(t) ==
    \E i \in 1..Len(CurRecord) : i <= WidthAt(cur[2]) /\ CurRecord[i].paper = t

\* Five references with the citation counts 50, 10, 80, 5, 30, as the
\* endpoint lists them.
FiveReferences ==
    <<[paper |-> "B", inf |-> FALSE], [paper |-> "C", inf |-> FALSE],
      [paper |-> "A", inf |-> TRUE], [paper |-> "D", inf |-> FALSE],
      [paper |-> "X", inf |-> TRUE]>>

\* What the expansion of a node with these references at width 3 iterates
\* over (lines 162-165).
FiveReferencesItems ==
    LET r == fetch_relations(Paginate(FiveReferences), "citation", FALSE,
                             NoYear, NoYear, DefaultFetchLimit)
    IN  SelectSeq(Take(r.items, 3), HasId)

\* The record k of the cache c is filtered and in descending order of
\* citation count.
FilteredSorted(c, k) ==
    /\ \A i, j \in 1..Len(c[k]) :
         i < j => CitationCountOf(c[k][i].paper)
                  >= CitationCountOf(c[k][j].paper)
    /\ \A i \in 1..Len(c[k]) : args.influential_only => c[k][i].inf

Count(e, s) == Cardinality({i \in 1..Len(s) : s[i] = e})

\* The entry e is to be kept by the call in progress: it is influential if
\* influential_only is set, and its year is known and within each bound set.
Kept(e) ==
    /\ fr_args.influential_only => e.inf
    /\ fr_args.since_year # NoYear =>
         YearOf(e.paper) # NoYear /\ YearOf(e.paper) >= fr_args.since_year
    /\ fr_args.until_year # NoYear =>
         YearOf(e.paper) # NoYear /\ YearOf(e.paper) <= fr_args.until_year

\* C14: the list fetch_relations returns holds exactly the retrieved entries
\* that pass the filter, each as often as it was retrieved: an entry is
\* dropped when influential_only is set and it is not influential, or when a
\* year bound is set and its year is unknown or outside the inclusive window
\* [since_year, until_year].  With influential_only set and one influential
\* entry retrieved the list has one entry, so a slice of any width has one.
C14_FilterExact ==
    fr_pc = "done" =>
        /\ \A e \in FetchEntries :
             Count(e, fr_out) = IF Kept(e) THEN Count(e, Gathered(fr_pages))
                                ELSE 0
        /\ Len(fr_out) = Cardinality({i \in 1..Len(Gathered(fr_pages)) :
                                        Kept(Gathered(fr_pages)[i])})
        /\ (/\ fr_args.influential_only
            /\ fr_args.since_year = NoYear
            /\ fr_args.until_year = NoYear
            /\ Cardinality({i \in 1..Len(Gathered(fr_pages)) :
                              Gathered(fr_pages)[i].inf}) = 1)
           => \A w \in 1..(2 * PageSize) : Len(Take(fr_out, w)) = 1

\* All the filters at once, on both bounds of the window: of X (2019,
\* influential), A (2017), B (2021) and an entry without paper, X is kept.
C14_Witness ==
    /\ fr_pc = "done"
    /\ fr_args.influential_only
    /\ fr_args.since_year = 2019
    /\ fr_args.until_year = 2019
    /\ PapersOf(Gathered(fr_pages)) = {"X", "A", "B", NoId}
    /\ fr_out = <<[paper |-> "X", inf |-> TRUE]>>

\* s cites t in the records retrieved: t is in the references record of s,
\* or s is in the citations record of t.
Cites(c, s, t) ==
    LET refs == BuildKey(s, "references")
        cits == BuildKey(t, "citations")
    IN  \/ refs \in DOMAIN c /\ t \in PapersOf(c[refs])
        \/ cits \in DOMAIN c /\ s \in PapersOf(c[cits])

\* C15: an edge added while A is expanded in direction references toward B
\* is A -> B, one added while A is expanded in direction citations toward B
\* is B -> A, and one added in densification goes from the node to an entry
\* of its references record.  So for every edge (s, t), t is in the
\* references record of s or s is in the citations record of t.
C15_EdgeDirection ==
    [][/\ \A i \in (Len(G_edges) + 1)..Len(G_edges') :
            /\ pc = "items" =>
                 IF directions(args.mode)[dirIdx] = "references"
                 THEN /\ G_edges'[i].source = cur[1]
                      /\ G_edges'[i].target = Head(items).paper
                 ELSE /\ G_edges'[i].source = Head(items).paper
                      /\ G_edges'[i].target = cur[1]
            /\ pc = "densify" =>
                 LET refs == BuildKey(G_edges'[i].source, "references") IN
                 /\ refs \in DOMAIN cache'
                 /\ G_edges'[i].target \in PapersOf(cache'[refs])
            /\ pc \in {"items", "densify"}
       /\ \A i \in 1..Len(G_edges') :
            Cites(cache', G_edges'[i].source, G_edges'[i].target)
      ]_vars

\* A finished build in mode "all": seed -> A from the seed's references, and
\* B -> seed from the seed's citations though the references record of B
\* does not hold the seed.
C15_Witness ==
    /\ pc = "done"
    /\ args.mode = "all"
    /\ has_edge(G_edges, SeedId, "A")
    /\ Related(SeedId, "references", "A")
    /\ has_edge(G_edges, "B", SeedId)
    /\ Related(SeedId, "citations", "B")
    /\ BuildKey("B", "references") \in DOMAIN cache
    /\ ~Related("B", "references", SeedId)

\* C16: when build has returned, every node p has a references record, and
\* for every entry r of that whole record that is a node the edge p -> r is
\* in the graph, whether BFS added it or not.
C16_DensificationComplete ==
    pc = "done" =>
        \A p \in NodeIds(G_nodes) :
            /\ BuildKey(p, "references") \in DOMAIN cache
            /\ \A r \in PapersOf(cache[BuildKey(p, "references")]) :
                 r \in NodeIds(G_nodes) => has_edge(G_edges, p, r)

\* A finished build of depth 1 and width 1: the seed's record holds A and B,
\* only A became a node, and A, which was never expanded, has the seed as
\* the second entry of its record: the edge A -> seed is there.
C16_Witness ==
    /\ pc = "done"
    /\ args.mode = "references"
    /\ args.depth = 1
    /\ args.widths = <<1>>
    /\ dequeues["A"] = 0
    /\ BuildKey(SeedId, "references") \in DOMAIN cache
    /\ BuildKey("A", "references") \in DOMAIN cache
    /\ Len(cache[BuildKey(SeedId, "references")]) = 2
    /\ Len(cache[BuildKey("A", "references")]) = 2
    /\ cache[BuildKey("A", "references")][2].paper = SeedId
    /\ has_edge(G_edges, SeedId, "A")
    /\ has_edge(G_edges, "A", SeedId)

\* C17: the cache key is (paper id, relation type, influential_only,
\* since_year, until_year, fetch_limit): a call whose six values are those of
\* no earlier call, because its first five are new or because it follows the
\* only call with its first five and has another fetch_limit, is retrieved
\* from the endpoint and not served from a record.
C17_KeyIncludesFetchLimit ==
    [][(\/ lastCall'.key \notin DOMAIN firstRet
        \/ /\ lastCall # NoCall
           /\ ~lastCall.repeat
           /\ lastCall'.key = lastCall.key
           /\ lastCall'.fetch_limit # lastCall.fetch_limit)
       => lastCall'.requests > 0]_vars

\* C18: the queue is first in, first out.  A pop takes the oldest entry, a
\* push goes behind all entries with a depth one more than that of the node
\* being expanded, and the depths of the entries popped one after the other
\* never decrease: the entries of depth d are expanded before those of depth
\* d+1, and entries of equal depth in the order they were put in.
C18_FIFO ==
    [][/\ cur' # cur =>
            /\ cur' = Head(queue)
            /\ queue' = Tail(queue)
            /\ cur # <<>> => cur'[2] >= cur[2]
       /\ (queue' # queue /\ cur' = cur) =>
            /\ Len(queue') = Len(queue) + 1
            /\ SubSeq(queue', 1, Len(queue)) = queue
            /\ Last(queue')[2] = IF cur = <<>> THEN 0 ELSE cur[2] + 1
       /\ \A i, j \in 1..Len(queue') :
            i < j => queue'[i][2] <= queue'[j][2]
       /\ \A i \in 1..Len(queue') : cur' # <<>> => cur'[2] <= queue'[i][2]
      ]_vars

\* B, put in the queue at depth 1 behind A, has just been popped though C,
\* found from A at depth 2, was in the queue too.
C18_Witness ==
    /\ cur = <<"B", 1>>
    /\ queue = <<<<"C", 2>>>>
    /\ dequeues["A"] = 1
    /\ dequeues["C"] = 0
    /\ has_edge(G_edges, "A", "C")

\* C19: in every state of a build both ends of every edge are nodes that
\* add_node has put in the graph: _add_edge adds (source, target) only when
\* both are nodes already, in BFS and in densification.
C19_EdgeEndsAreNodes ==
    \A i \in 1..Len(G_edges) :
        /\ has_node(G_nodes, G_edges[i].source)
        /\ has_node(G_nodes, G_edges[i].target)

\* A finished build whose seed never became a node (its detail record had
\* no paperId): A, found in the seed's record, is a node, the edge seed -> A
\* was not added, and another edge was.
C19_Witness ==
    /\ pc = "done"
    /\ ~has_node(G_nodes, SeedId)
    /\ has_node(G_nodes, "A")
    /\ Related(SeedId, "references", "A")
    /\ ~has_edge(G_edges, SeedId, "A")
    /\ G_edges # <<>>

\* While an entry of items is handled, its paper is put in the queue, with
\* the depth of the node being expanded plus one, exactly when it was not in
\* visited before and that depth is less than the maximum depth.
EnqueueRule ==
    pc = "items" =>
        /\ queue' # queue <=>
             (Head(items).paper \notin visited /\ cur[2] + 1 < args.depth)
        /\ queue' # queue =>
             queue' = Append(queue, <<Head(items).paper, cur[2] + 1>>)

\* C20 as stated: an id is in visited if and only if it was put in the queue
\* at some point of the build, and a target is put in the queue exactly when
\* it was not in visited before and depth+1 is less than the maximum depth.
C20_VisitedIsEverEnqueued ==
    [][visited' = enqueued' /\ EnqueueRule]_vars

\* C20 amended: every id that was put in the queue is in visited; an id is
\* put in visited without being put in the queue only as a target met when
\* depth+1 is not less than the maximum depth; and a target is put in the
\* queue exactly when it was not in visited before and depth+1 is less than
\* the maximum depth.
C20_EnqueuedAreVisited ==
    [][/\ enqueued' \subseteq visited'
       /\ \A p \in visited' \ visited :
            \/ p \in enqueued' \ enqueued
            \/ /\ pc = "items"
               /\ p = Head(items).paper
               /\ ~(cur[2] + 1 < args.depth)
       /\ visited \subseteq visited'
       /\ EnqueueRule
      ]_vars

\* A finished build of depth 2: B, met from A at depth 1, is in visited and
\* was never in the queue.
C20_Witness ==
    /\ pc = "done"
    /\ args.depth = 2
    /\ args.mode = "references"
    /\ enqueued = {SeedId, "A"}
    /\ visited = {SeedId, "A", "B"}
    /\ has_edge(G_edges, "A", "B")
    /\ dequeues["B"] = 0

\* 1 + b + b^2 + ... + b^(n-1)
RECURSIVE Geometric(_, _)
Geometric(b, n) == IF n = 0 THEN 0 ELSE 1 + b * Geometric(b, n - 1)

\* C21 as stated: with a uniform width w, maximum depth D and k directions
\* the BFS loop makes at most w^D * k relation lookups.
C21_LookupsWithinPower ==
    Len(args.widths) = 1 =>
        lookups <= (args.widths[1] ^ args.depth) * Len(directions(args.mode))

\* C21 amended: with a uniform width w >= 1, maximum depth D and k
\* directions the BFS loop makes at most
\* k * (1 + k*w + (k*w)^2 + ... + (k*w)^(D-1)) relation lookups: k for each
\* node expanded, and each lookup puts at most w nodes in the queue.
C21_LookupsWithinTree ==
    Len(args.widths) = 1 =>
        lookups <= Len(directions(args.mode))
                   * Geometric(Len(directions(args.mode)) * args.widths[1],
                               args.depth)

\* A finished build of width 1 and depth 2 in mode "all": the seed, A and B
\* were expanded in both directions, six lookups.
C21_Witness ==
    /\ pc = "done"
    /\ args.widths = <<1>>
    /\ args.depth = 2
    /\ args.mode = "all"
    /\ \A p \in Papers : dequeues[p] = 1
    /\ lookups = 6

\* C22: no step of a build removes or changes a node or an edge: the nodes
\* and the edges before a step are the first of those after it, and an
\* ordered pair that had an edge keeps that edge, with the colour and width
\* of its first insertion, when the pair is found again with another
\* influential flag.
C22_AppendOnly ==
    [][/\ Len(G_nodes') >= Len(G_nodes)
       /\ SubSeq(G_nodes', 1, Len(G_nodes)) = G_nodes
       /\ Len(G_edges') >= Len(G_edges)
       /\ SubSeq(G_edges', 1, Len(G_edges)) = G_edges
       /\ \A i \in 1..Len(G_edges), j \in 1..Len(G_edges') :
            (/\ G_edges'[j].source = G_edges[i].source
             /\ G_edges'[j].target = G_edges[i].target)
            => G_edges'[j] = G_edges[i]
      ]_vars

\* A finished build: the edge B -> seed was added from the seed's citations
\* record, where B is not influential, and met again in densification from
\* the references record of B, where the seed is influential; the edge has
\* the width of a non-influential one.
C22_Witness ==
    /\ pc = "done"
    /\ Related(SeedId, "citations", "B")
    /\ BuildKey("B", "references") \in DOMAIN cache
    /\ \E i \in 1..Len(cache[BuildKey("B", "references")]) :
         cache[BuildKey("B", "references")][i]
           = [paper |-> SeedId, inf |-> TRUE]
    /\ \E i \in 1..Len(G_edges) :
         G_edges[i] = EdgeRecord("B", SeedId, FALSE)

\* The seed's detail record had the id the search returned: it is the first
\* node, of layer 0, and the build is past its seed.
SeedInserted ==
    /\ pc \in {"loop", "dir", "items", "densify", "done"}
    /\ G_nodes # <<>>
    /\ G_nodes[1] = NodeRecord(root_id, 0)

\* C23: when the seed's detail record has the id the search returned, then
\* after every relation entry processed and at the end of the build the
\* visited set is the set of the node ids: a node is marked also when it is
\* not enqueued, and nothing but nodes is marked.
C23_VisitedEqualsNodes == SeedInserted => visited = NodeIds(G_nodes)

\* A finished build of depth 1: A is a node and marked, and was never in the
\* queue, the depth being used up.
C23_Witness ==
    /\ pc = "done"
    /\ SeedInserted
    /\ args.depth = 1
    /\ "A" \in NodeIds(G_nodes)
    /\ "A" \in visited
    /\ "A" \notin enqueued

====
